---- MODULE Spec2Model ----
(***************************************************************************)
(* Lapsipaimen (src/code.py): the control loop of a two-unit proximity     *)
(* alert pair.  The central unit ("guardian") scans for the peripheral     *)
(* ("ward"), debounces the RSSI into alert_state and sends it to the ward; *)
(* the ward sets its alert_state from what it receives.                    *)
(*                                                                         *)
(* Strings are sequences of one-character strings, byte strings are        *)
(* sequences of integers 0..255.  The clock counts whole seconds.  One     *)
(* pass of the main loop is three steps: the button, the pulses, and the   *)
(* role's radio step (connect or wait_for_connection), each taken whole.   *)
(* What the radio, the clock, the button and the battery deliver are       *)
(* inputs.  Whether the ward is advertising is left to the radio.          *)
(***************************************************************************)
EXTENDS Integers, Sequences, FiniteSets, TLC

(***************************************************************************)
(* Program constants                                                       *)
(***************************************************************************)
HAPTIC_EFFECT_NOTIFY == 47
HAPTIC_EFFECT_NOTIFY_LEVEL == 80
HAPTIC_EFFECT_ALERT == 58
HAPTIC_EFFECT_ALERT_LEVEL == 100
HAPTIC_EFFECT_ALERT_SECONDS == 1
BTN_LONG_PRESS_SECONDS == 8
BLE_MAC_CENTRAL ==
    << "f","4",":","a","7",":","b","4",":","0","b",":","c","7",":","3","6" >>
BLE_MAC_PERIPHERAL ==
    << "e","2",":","6","d",":","5","8",":","b","d",":","e","c",":","4","b" >>
BLE_RSSI_THRESHOLD == -78
BLE_RSSI_SAMPLES == 8
ALERT_STATE_SAMPLES == 5
LED_STATUS_SECONDS == 5
MINIMUM_RSSI == -100

(***************************************************************************)
(* Bounds and input sets of the model                                      *)
(***************************************************************************)
\* Largest number of advertisements one scan yields.
MaxAdvs == 2
\* Largest reading of the monotonic clock, in seconds.
MaxTime == 10
\* Largest number of pushes the recorded push history holds.
MaxPushes == 10

\* Address bytes as the adapter reports them (least significant byte first).
WardBytes == << 75, 236, 189, 88, 109, 226 >>
GuardianBytes == << 54, 199, 11, 180, 167, 244 >>
\* A third device, and the ward's address in the opposite byte order.
StrangerBytes == << 1, 2, 3, 4, 5, 6 >>
SwappedWardBytes == << 226, 109, 88, 189, 236, 75 >>

\* Signal strengths an advertisement can carry (all >= MINIMUM_RSSI).
RSSIValues == { -79, -50 }

(***************************************************************************)
(* Pure helpers                                                            *)
(***************************************************************************)
RECURSIVE Sum(_)
Sum(s) == IF s = << >> THEN 0 ELSE Head(s) + Sum(Tail(s))

RECURSIVE Reversed(_)
Reversed(s) == IF s = << >> THEN << >> ELSE Append(Reversed(Tail(s)), Head(s))

HexDigits ==
    << "0","1","2","3","4","5","6","7","8","9","a","b","c","d","e","f" >>

\* f"{b:02x}"
Hex02(b) == << HexDigits[(b \div 16) + 1], HexDigits[(b % 16) + 1] >>

RECURSIVE Join(_, _)
Join(sep, parts) ==
    IF parts = << >> THEN << >>
    ELSE IF Len(parts) = 1 THEN Head(parts)
    ELSE Head(parts) \o sep \o Join(sep, Tail(parts))

\* ":".join(f"{b:02x}" for b in reversed(addr_bytes))
bytes_to_mac_unreversed(addr_bytes) ==
    Join(<< ":" >>, [i \in 1..Len(addr_bytes) |-> Hex02(addr_bytes[i])])

bytes_to_mac(addr_bytes) ==
    LET r == Reversed(addr_bytes)
    IN  Join(<< ":" >>, [i \in 1..Len(r) |-> Hex02(r[i])])

(***************************************************************************)
(* update_state: the debouncer                                             *)
(***************************************************************************)
\* lst.append(x); if len(lst) > cap: lst.pop(0)
PushEvictNewest(lst, x, cap) ==
    IF Len(lst) + 1 > cap THEN lst ELSE Append(lst, x)

PushNoEvict(lst, x, cap) == Append(lst, x)

Push(lst, x, cap) ==
    LET a == Append(lst, x)
    IN  IF Len(a) > cap THEN Tail(a) ELSE a

\* ble_rssi_mean = sum / len, kept as the exact fraction [sum, len].
Mean(rssis) == [sum |-> Sum(rssis), len |-> Len(rssis)]

AboveThreshold(mean) == mean.sum > BLE_RSSI_THRESHOLD * mean.len

\* mean < BLE_RSSI_THRESHOLD, for a fraction with len > 0.  (The float
\* quotient of the source compares like the exact fraction: it differs from
\* the threshold by at least 1/8.)
BelowThreshold(mean) == mean.sum < BLE_RSSI_THRESHOLD * mean.len

\* "Not enough measurements yet"
NotEnoughSignalIgnored(rssis, states) ==
    Len(states) + 1 < ALERT_STATE_SAMPLES

NotEnoughOneShort(rssis, states) ==
    \/ Len(rssis) < BLE_RSSI_SAMPLES - 1
    \/ Len(states) + 1 < ALERT_STATE_SAMPLES

NotEnough(rssis, states) ==
    \/ Len(rssis) < BLE_RSSI_SAMPLES
    \/ Len(states) + 1 < ALERT_STATE_SAMPLES

all(states) == \A i \in DOMAIN states : states[i]
any(states) == \E i \in DOMAIN states : states[i]

\* all(alert_states) or not any(alert_states)
ConsistentLast(states) == TRUE

Consistent(states) == all(states) \/ ~any(states)

\* "Current state has changed"
ChangedAlways(alert, new_state) == TRUE

Changed(alert, new_state) == alert # new_state

\* The globals update_state reads and writes.
Globals(rssis, mean, states, alert) ==
    [ble_rssis |-> rssis, ble_rssi_mean |-> mean,
     alert_states |-> states, alert_state |-> alert]

\* update_state(rssi) from globals g: the globals after the call and the
\* value returned.
update_state(g, rssi) ==
    LET rssis     == Push(g.ble_rssis, rssi, BLE_RSSI_SAMPLES)
        mean      == Mean(rssis)
        new_state == BelowThreshold(mean)
        states    == Push(g.alert_states, new_state, ALERT_STATE_SAMPLES)
        commit    == /\ ~NotEnough(rssis, states)
                     /\ Consistent(states)
                     /\ Changed(g.alert_state, new_state)
    IN  [g   |-> Globals(rssis, mean, states,
                         IF commit THEN new_state ELSE g.alert_state),
         ret |-> commit, new_state |-> new_state]

(***************************************************************************)
(* State                                                                   *)
(***************************************************************************)
VARIABLES
    ble_is_central,    \* d5.value at boot: TRUE = guardian, FALSE = ward
    ble_rssis,         \* SignalWindow
    ble_rssi_mean,     \* mean of ble_rssis at the last update_state
    alert_states,      \* DecisionWindow
    alert_state,       \* AlertState
    btn_state,         \* button level sampled on the previous tick
    btn_timestamp,     \* time of the last falling edge
    silent,            \* Mute
    alert_timestamp,   \* time of the last alert pulse
    status_timestamp,  \* time of the last status pulse
    now,               \* the clock as read at the top of the current tick
    pc,                \* position of the main loop
    out,               \* the outputs of the current tick so far
    cycle,             \* what the last connect() / wait_for_connection() did
    address_bytes,     \* ble._adapter.address.address_bytes: the unit's own address
    recording,         \* whether the push histories are recorded
    pushed_rssis,      \* history: samples pushed since ble_rssis was last emptied
    pushed_states,     \* history: all decisions pushed
    absent,            \* history: consecutive scans with no qualifying candidate
    seen,              \* history: what the radio delivered to the last cycle
    held               \* history: time of the falling edge since which the
                       \* button was sampled low on every tick, or NotHeld

vars == << ble_is_central, ble_rssis, ble_rssi_mean, alert_states, alert_state,
           btn_state, btn_timestamp, silent, alert_timestamp, status_timestamp,
           now, pc, out, cycle, address_bytes, recording, pushed_rssis, pushed_states,
           absent, seen, held >>

\* No falling edge was sampled since the button was last sampled high.
NotHeld == -1

G == Globals(ble_rssis, ble_rssi_mean, alert_states, alert_state)

(***************************************************************************)
(* Outputs                                                                 *)
(***************************************************************************)
Event(op, color, count, effect, level) ==
    [op |-> op, color |-> color, count |-> count,
     effect |-> effect, level |-> level]

\* blink(color, duration, count)
blink(color, count) == Event("blink", color, count, 0, 0)

\* vibrate(effect, level): the effect played is computed from the level.
vibrate(effect, level) ==
    Event("vibrate", "", 0, HAPTIC_EFFECT_ALERT + 5 - (level \div 20), level)

print_info == Event("print_info", "", 0, 0, 0)

\* shutdown(): deep sleep until the button wakes the board; never returns.
shutdown == Event("shutdown", "", 0, 0, 0)

(***************************************************************************)
(* connect: one scan cycle of the guardian                                 *)
(***************************************************************************)
\* The synthetic sample pushed when the scan found nobody.
FarSampleAtThreshold == BLE_RSSI_THRESHOLD

FarSample == BLE_RSSI_THRESHOLD - 1

\* Characters of the texts the units exchange, with their code points.
Chars == << <<"0", 48>>, <<"1", 49>>, <<"2", 50>>, <<"x", 120>>,
            <<" ", 32>>, <<"\n", 10>> >>
Ord(c) == (CHOOSE i \in DOMAIN Chars : Chars[i][1] = c) \* code point of c
Chr(b) == (CHOOSE i \in DOMAIN Chars : Chars[i][2] = b) \* character of code b
ord(c) == Chars[Ord(c)][2]
chr(b) == Chars[Chr(b)][1]

encode_state_inverted(alert) == << ord(IF alert THEN "0" ELSE "1") >>

\* str(int(alert_state)).encode("utf-8")
encode_state(alert) == << ord(IF alert THEN "1" ELSE "0") >>

\* What one update_state call did, as recorded in cycle.obs.
Observation(g, rssi, real, u) ==
    [rssi   |-> rssi,            \* the sample
     real   |-> real,            \* from an advertisement (not synthetic)
     before |-> g.alert_state,   \* alert_state before the call
     rssis_before  |-> g.ble_rssis,
     states_before |-> g.alert_states,
     after  |-> u.g.alert_state, \* alert_state after the call
     ret    |-> u.ret,           \* the value returned
     decision |-> u.new_state,   \* the raw decision pushed
     rssis  |-> u.g.ble_rssis,   \* ble_rssis after the call
     states |-> u.g.alert_states]

NoCycle ==
    [scanned |-> FALSE, obs |-> << >>, attempts |-> 0, connect_errors |-> 0, connected |-> FALSE,
     writes |-> << >>, write_error |-> FALSE, disconnected |-> FALSE,
     candidates |-> 0, mac |-> << >>, data |-> << >>, received |-> FALSE]

\* "Abort scaning if state has not changed"
AbortNever(changed) == FALSE

Abort(changed) == ~changed

\* The scan loop (for ... else) over the advertisements the scan yields.
\* Gives the globals, the record of the cycle and whether `connection` is set.
RECURSIVE scan_loop(_, _, _)
scan_loop(g, tr, advs) ==
    IF advs = << >>
    THEN \* else: "No devices found!"
         LET u == update_state(g, FarSample)
         IN  [g  |-> u.g,
              tr |-> [tr EXCEPT !.obs =
                         Append(@, Observation(g, FarSample, FALSE, u))],
              connection |-> FALSE]
    ELSE LET adv == Head(advs)
         IN  IF bytes_to_mac(adv.address_bytes) # BLE_MAC_PERIPHERAL
             THEN scan_loop(g, tr, Tail(advs))
             ELSE IF ~adv.uart
             THEN scan_loop(g, tr, Tail(advs))
             ELSE LET u   == update_state(g, adv.rssi)
                      tr1 == [tr EXCEPT
                                !.obs = Append(@, Observation(g, adv.rssi, TRUE, u)),
                                !.candidates = @ + 1]
                  IN  IF Abort(u.ret)
                      THEN [g |-> u.g, tr |-> tr1, connection |-> FALSE]
                      ELSE IF adv.connects
                      THEN [g  |-> u.g,
                            tr |-> [tr1 EXCEPT !.attempts = @ + 1,
                                               !.connected = TRUE],
                            connection |-> TRUE]
                      ELSE scan_loop(u.g,
                                     [tr1 EXCEPT !.attempts = @ + 1,
                                                 !.connect_errors = @ + 1],
                                     Tail(advs))

\* The outcomes of the write block: all written, connection[UARTService]
\* raises, the first write raises, the second write raises.
WriteOutcomes == { "ok", "no_uart", "address", "state" }

\* "Send own MAC address and alert state", with try / except / finally.
send_state_digit_first(g, tr, own, w) ==
    [g  |-> IF w = "ok" THEN g ELSE [g EXCEPT !.ble_rssis = << >>],
     tr |-> [tr EXCEPT !.writes =
                          IF w = "ok" THEN << encode_state(g.alert_state), own >>
                          ELSE IF w = "state" THEN << encode_state(g.alert_state) >>
                          ELSE << >>,
                       !.write_error = (w # "ok"),
                       !.disconnected = TRUE]]

send_state_no_reset(g, tr, own, w) ==
    [g  |-> g,
     tr |-> [tr EXCEPT !.writes =
                          IF w = "ok" THEN << own, encode_state(g.alert_state) >>
                          ELSE IF w = "state" THEN << own >>
                          ELSE << >>,
                       !.write_error = (w # "ok"),
                       !.disconnected = TRUE]]

send_state(g, tr, own, w) ==
    LET written == IF w = "ok" THEN << own, encode_state(g.alert_state) >>
                   ELSE IF w = "state" THEN << own >>
                   ELSE << >>
    IN  [g  |-> IF w = "ok" THEN g
                ELSE [g EXCEPT !.ble_rssis = << >>],
         tr |-> [tr EXCEPT !.writes = written,
                           !.write_error = (w # "ok"),
                           !.disconnected = TRUE]]

\* The rest of connect() after a scan that ended as s ("if not connection:
\* return"), the writes ending as w.
after_scan(s, own, w) ==
    IF ~s.connection
    THEN [g |-> s.g, tr |-> s.tr]
    ELSE send_state(s.g, s.tr, own, w)

\* The pushes of a cycle appended to a history.
RECURSIVE PushedSamples(_)
PushedSamples(obs) ==
    IF obs = << >> THEN << >>
    ELSE << Head(obs).rssi >> \o PushedSamples(Tail(obs))

RECURSIVE PushedDecisions(_)
PushedDecisions(obs) ==
    IF obs = << >> THEN << >>
    ELSE << Head(obs).decision >> \o PushedDecisions(Tail(obs))

\* The outcomes the write block can have after a scan that ended as s: none
\* when the scan made no connection.
Outcomes(s) == IF s.connection THEN WriteOutcomes ELSE { "ok" }

\* A run of scans without candidate is counted up to the length after which
\* both windows hold nothing but what the run put there.
AbsentCap == BLE_RSSI_SAMPLES + ALERT_STATE_SAMPLES - 1

Connect(advs) ==
    /\ pc = "ble"
    /\ ble_is_central
    /\ recording => Len(pushed_states) < MaxPushes
    /\ \E s \in { scan_loop(G, [NoCycle EXCEPT !.scanned = TRUE], advs) } :
       \E w \in Outcomes(s) :
       \E r \in { after_scan(s, address_bytes, w) } :
           /\ ble_rssis' = r.g.ble_rssis
           /\ ble_rssi_mean' = r.g.ble_rssi_mean
           /\ alert_states' = r.g.alert_states
           /\ alert_state' = r.g.alert_state
           /\ cycle' = r.tr
           /\ out' = IF s.connection THEN Append(out, print_info) ELSE out
           /\ pushed_rssis' =
                 IF ~recording THEN pushed_rssis
                 ELSE IF r.tr.write_error THEN << >>
                 ELSE pushed_rssis \o PushedSamples(r.tr.obs)
           /\ pushed_states' =
                 IF ~recording THEN pushed_states
                 ELSE pushed_states \o PushedDecisions(r.tr.obs)
           /\ absent' = IF r.tr.candidates > 0 THEN 0
                        ELSE IF absent < AbsentCap THEN absent + 1
                        ELSE absent
    /\ pc' = "button"
    /\ UNCHANGED << ble_is_central, btn_state, btn_timestamp, silent,
                    alert_timestamp, status_timestamp, now,
                    address_bytes, recording, held >>

(***************************************************************************)
(* wait_for_connection: one poll of the ward                               *)
(***************************************************************************)
Whitespace == { " ", "\n" }

RECURSIVE lstrip(_)
lstrip(s) ==
    IF s # << >> /\ Head(s) \in Whitespace THEN lstrip(Tail(s)) ELSE s

\* str.strip()
strip(s) == Reversed(lstrip(Reversed(lstrip(s))))

\* bytes.decode("utf8") of ASCII bytes
decode(bytes) == [i \in 1..Len(bytes) |-> chr(bytes[i])]

read_one_short(rx, n) == SubSeq(rx, 1, IF Len(rx) < n THEN Len(rx) ELSE n - 1)

\* uart.read(n): at most n bytes of what was received
read(rx, n) == SubSeq(rx, 1, IF Len(rx) < n THEN Len(rx) ELSE n)

\* uart.readline(): up to and including the first newline, or all there is
readline(rx) ==
    LET nl == { i \in DOMAIN rx : rx[i] = ord("\n") }
    IN  IF nl = {} THEN rx
        ELSE SubSeq(rx, 1, CHOOSE i \in nl : \A j \in nl : i <= j)

Digits == << "0", "1", "2", "3", "4", "5", "6", "7", "8", "9" >>
IsDigit(c) == \E d \in DOMAIN Digits : Digits[d] = c
DigitValue(c) == (CHOOSE d \in DOMAIN Digits : Digits[d] = c) - 1

RECURSIVE DecimalValue(_)
DecimalValue(s) ==
    IF s = << >> THEN 0
    ELSE 10 * DecimalValue(SubSeq(s, 1, Len(s) - 1)) + DigitValue(s[Len(s)])

\* int(data) of a stripped, non-empty text of the characters of Chars:
\* its value, or "ValueError".
int(data) ==
    IF \A i \in DOMAIN data : IsDigit(data[i])
    THEN [ok |-> TRUE, value |-> DecimalValue(data)]
    ELSE [ok |-> FALSE, value |-> 0]

\* wait_for_connection() when a central is connected and has sent rx:
\* the address read, the text read, alert_state afterwards, and whether
\* the call raised.
receive_state(alert, rx) ==
    LET addr == bytes_to_mac(read(rx, 6))
        rest == SubSeq(rx, Len(read(rx, 6)) + 1, Len(rx))
        data == strip(decode(readline(rest)))
    IN  IF addr # BLE_MAC_CENTRAL
        THEN [mac |-> addr, data |-> << >>, alert |-> alert,
              received |-> FALSE, raised |-> FALSE]
        ELSE IF data = << >>
        THEN [mac |-> addr, data |-> data, alert |-> alert,
              received |-> FALSE, raised |-> FALSE]
        ELSE IF ~int(data).ok
        THEN [mac |-> addr, data |-> data, alert |-> alert,
              received |-> FALSE, raised |-> TRUE]
        ELSE [mac |-> addr, data |-> data, alert |-> (int(data).value # 0),
              received |-> TRUE, raised |-> FALSE]

WaitForConnection(connected, rx) ==
    /\ pc = "ble"
    /\ ~ble_is_central
    /\ IF ~connected
       THEN /\ cycle' = NoCycle
            /\ pc' = "button"
            /\ UNCHANGED alert_state
       ELSE LET r == receive_state(alert_state, rx)
            IN  /\ alert_state' = r.alert
                /\ cycle' = [NoCycle EXCEPT !.connected = TRUE,
                                            !.mac = r.mac,
                                            !.data = r.data,
                                            !.received = r.received]
                /\ pc' = IF r.raised THEN "error" ELSE "button"
    /\ UNCHANGED << ble_is_central, ble_rssis, ble_rssi_mean, alert_states,
                    btn_state, btn_timestamp, silent, alert_timestamp,
                    status_timestamp, now, out, address_bytes, recording,
                    pushed_rssis, pushed_states, absent, held >>

(***************************************************************************)
(* The main loop                                                           *)
(***************************************************************************)
\* "Button long-pressed"
LongPressNoLevel(level, t, stamp) == t > stamp + BTN_LONG_PRESS_SECONDS

LongPressLate(level, t, stamp) ==
    ~level /\ t > stamp + BTN_LONG_PRESS_SECONDS + 1

LongPress(level, t, stamp) == ~level /\ t > stamp + BTN_LONG_PRESS_SECONDS

\* "Button pressed": the level sampled on the previous tick was prev.
AnyEdge(prev, level) == prev # level

FallingEdge(prev, level) == prev # level /\ ~level

\* Top of the loop: the clock reads t and the button reads level.
Button(t, level) ==
    /\ pc = "button"
    /\ now' = t
    /\ LET pressed == FallingEdge(btn_state, level)
           stamp   == IF pressed THEN t ELSE btn_timestamp
           info    == IF pressed THEN << print_info >> ELSE << >>
       IN  /\ btn_timestamp' = stamp
           /\ silent' = IF pressed THEN ~silent ELSE silent
           /\ IF LongPress(level, t, stamp)
              THEN /\ out' = info \o << blink("purple", 5), shutdown >>
                   /\ pc' = "off"
                   /\ UNCHANGED btn_state
              ELSE /\ out' = info
                   /\ pc' = "output"
                   /\ btn_state' = level
           /\ held' = IF level THEN NotHeld
                      ELSE IF pressed THEN t
                      ELSE held
    /\ UNCHANGED << ble_is_central, ble_rssis, ble_rssi_mean, alert_states,
                    alert_state, alert_timestamp, status_timestamp, cycle,
                    address_bytes, recording, pushed_rssis, pushed_states,
                    absent, seen >>

\* "if not silent: vibrate(HAPTIC_EFFECT_ALERT, HAPTIC_EFFECT_ALERT_LEVEL)"
HapticUnmuted(muted) ==
    << vibrate(HAPTIC_EFFECT_ALERT, HAPTIC_EFFECT_ALERT_LEVEL) >>

Haptic(muted) ==
    IF ~muted
    THEN << vibrate(HAPTIC_EFFECT_ALERT, HAPTIC_EFFECT_ALERT_LEVEL) >>
    ELSE << >>

\* "now > alert_timestamp + HAPTIC_EFFECT_ALERT_SECONDS" and the like.
DueAtLeast(t, stamp, period) == t >= stamp + period

Due(t, stamp, period) == t > stamp + period

\* "Play the next loop of alert effect if needed", "Blink status led
\* otherwise"; low is what low_battery() returns if it is called.
Output(low) ==
    /\ pc = "output"
    /\ IF alert_state /\ Due(now, alert_timestamp, HAPTIC_EFFECT_ALERT_SECONDS)
       THEN /\ alert_timestamp' = now
            /\ out' = out \o << blink("yellow", 1) >> \o Haptic(silent)
            /\ UNCHANGED status_timestamp
       ELSE IF ~alert_state /\ Due(now, status_timestamp, LED_STATUS_SECONDS)
       THEN /\ status_timestamp' = now
            /\ out' = out \o << blink(IF low THEN "red" ELSE "blue", 1) >>
            /\ UNCHANGED alert_timestamp
       ELSE UNCHANGED << alert_timestamp, status_timestamp, out >>
    /\ pc' = "ble"
    /\ UNCHANGED << ble_is_central, ble_rssis, ble_rssi_mean, alert_states,
                    alert_state, btn_state, btn_timestamp, silent, now, cycle,
                    address_bytes, recording, pushed_rssis, pushed_states,
                    absent, seen, held >>

(***************************************************************************)
(* Inputs                                                                  *)
(***************************************************************************)
\* Advertisements: the ward with the UART service at each signal strength,
\* answering a connection or not; the ward without the service; others.
WardAdvs(values) ==
    [address_bytes : { WardBytes }, uart : { TRUE },
     rssi : values, connects : BOOLEAN]

OtherAdvs ==
    { [address_bytes |-> WardBytes, uart |-> FALSE, rssi |-> -79,
       connects |-> TRUE],
      [address_bytes |-> SwappedWardBytes, uart |-> TRUE, rssi |-> -79,
       connects |-> TRUE] }

Advs(values) == WardAdvs(values) \cup OtherAdvs

\* What a scan can yield: up to MaxAdvs advertisements, the ward's with a
\* signal strength of values.
Scans(values) == UNION { [1..n -> Advs(values)] : n \in 0..MaxAdvs }

\* The clock never runs backwards: the readings d seconds after the last,
\* for d in steps.
Clock(steps) == { t \in now..MaxTime : t - now \in steps }

\* What the ward can find received when a central is connected: six or
\* fewer address bytes, then a text.
encode(text) == [i \in 1..Len(text) |-> ord(text[i])]

RxAddresses == { GuardianBytes, StrangerBytes, SubSeq(GuardianBytes, 1, 3) }

RxTexts == { << >>, << "0" >>, << "1" >>, << "1", "\n" >>, << "2" >>,
             << "x" >>, << "\n" >> }

RxStreams == { a \o encode(text) : a \in RxAddresses, text \in RxTexts }

(***************************************************************************)
(* Specifications                                                          *)
(***************************************************************************)
\* The state after the module-level code before the loop.
Boot(roles, levels, times, rec) ==
    /\ ble_is_central \in roles
    /\ address_bytes = IF ble_is_central THEN GuardianBytes ELSE WardBytes
    /\ ble_rssis = << >>
    /\ ble_rssi_mean = [sum |-> 0, len |-> 1]
    /\ btn_state \in levels
    /\ btn_timestamp = 0
    /\ alert_state = FALSE
    /\ alert_states = << >>
    /\ alert_timestamp = 0
    /\ silent = FALSE
    /\ status_timestamp \in times
    /\ now = status_timestamp
    /\ pc = "button"
    /\ out = << print_info,
                vibrate(HAPTIC_EFFECT_NOTIFY, HAPTIC_EFFECT_NOTIFY_LEVEL),
                blink("cyan", 1) >>
    /\ cycle = NoCycle
    /\ recording = rec
    /\ pushed_rssis = << >>
    /\ pushed_states = << >>
    /\ absent = 0
    /\ seen = << >>
    /\ held = NotHeld

\* The guardian with the button released and the clock not yet advanced.
InitGuardian == Boot({ TRUE }, { TRUE }, { 0 }, FALSE)

\* The same, with the push histories recorded.
InitFifo == Boot({ TRUE }, { TRUE }, { 0 }, TRUE)

QuietButton == Button(now, TRUE)
QuietOutput == Output(FALSE)
Scan == \E advs \in Scans(RSSIValues) : Connect(advs) /\ UNCHANGED seen

NextGuardian == QuietButton \/ QuietOutput \/ Scan

SpecGuardian == InitGuardian /\ [][NextGuardian]_vars

SpecFifo == InitFifo /\ [][NextGuardian]_vars

\* Both roles, the ward staying far from the guardian; the clock is read
\* unchanged or once a long press has gone by.
Init == Boot(BOOLEAN, BOOLEAN, { 0 }, FALSE)

Tick ==
    \E t \in Clock({ 0, BTN_LONG_PRESS_SECONDS + 1 }) :
        \E level \in BOOLEAN : Button(t, level)
Pulse == \E low \in BOOLEAN : Output(low)
Poll ==
    \E connected \in BOOLEAN :
        \E rx \in RxStreams :
            WaitForConnection(connected, rx) /\ UNCHANGED seen

FarScan == \E advs \in Scans({ FarSample }) : Connect(advs) /\ UNCHANGED seen

Next == Tick \/ Pulse \/ FarScan \/ Poll

Spec == Init /\ [][Next]_vars

\* Both roles with the button released and the clock not advanced, the ward
\* far from the guardian; what the radio delivered to a cycle (the scan's
\* advertisements, the bytes received) is kept in `seen`.
InitIdentity == Boot(BOOLEAN, { TRUE }, { 0 }, FALSE)

SeenScan ==
    \E advs \in Scans({ FarSample }) : Connect(advs) /\ seen' = advs
SeenPoll ==
    \E connected \in BOOLEAN :
        \E rx \in RxStreams :
            /\ WaitForConnection(connected, rx)
            /\ seen' = IF connected THEN rx ELSE << >>

NextIdentity == QuietButton \/ QuietOutput \/ SeenScan \/ SeenPoll

SpecIdentity == InitIdentity /\ [][NextIdentity]_vars

\* The ward with the button pressed, held and released at will, booted
\* with the clock at 0 or later, the clock read a second or two after the
\* last reading; a guardian in either state connects now and then.
BootTimes == { 0, 2 }

InitButton == Boot({ FALSE }, BOOLEAN, BootTimes, FALSE)

Press == \E t \in Clock({ 1, 2 }) : \E level \in BOOLEAN : Button(t, level)
Handshakes ==
    \E connected \in BOOLEAN :
        \E b \in BOOLEAN :
            WaitForConnection(connected, GuardianBytes \o encode_state(b))
                /\ UNCHANGED seen

NextButton == Press \/ Pulse \/ Handshakes

SpecButton == InitButton /\ [][NextButton]_vars

\* The guardian with the button pressed and released at will and the ward
\* out of reach: every scan ends without advertisement. The clock is read
\* unchanged or two seconds later.
InitMute == Boot({ TRUE }, { TRUE }, { 0 }, FALSE)

MuteTick == \E t \in Clock({ 0, 2 }) : \E level \in BOOLEAN : Button(t, level)
EmptyScan == Connect(<< >>) /\ UNCHANGED seen

NextMute == MuteTick \/ Pulse \/ EmptyScan

SpecMute == InitMute /\ [][NextMute]_vars

(***************************************************************************)
(* Properties                                                              *)
(***************************************************************************)
Obs == { cycle.obs[i] : i \in DOMAIN cycle.obs }

Unanimous(states, value) == \A i \in DOMAIN states : states[i] = value

Min(a, b) == IF a < b THEN a ELSE b

\* The last n elements of seq.
LastN(seq, n) == SubSeq(seq, Len(seq) - n + 1, Len(seq))

\* The calls of update_state of a cycle follow one another from the state
\* before the cycle to the state after it.
ObsChained(first, last) ==
    /\ cycle'.obs # << >>
    /\ cycle'.obs[1].before = first
    /\ cycle'.obs[Len(cycle'.obs)].after = last
    /\ \A i \in 1..(Len(cycle'.obs) - 1) :
          cycle'.obs[i].after = cycle'.obs[i + 1].before

\* C1 (state part): an update_state call that changed alert_state left
\* ALERT_STATE_SAMPLES decisions in alert_states, all equal to the new value
\* and different from the old one; a call that left fewer decisions, or
\* decisions that disagree, left alert_state as it was and returned False.
C1_CallsCommitOnUnanimity ==
    \A e \in Obs :
        /\ e.ret <=> (e.after # e.before)
        /\ e.after # e.before =>
              /\ Len(e.states) = ALERT_STATE_SAMPLES
              /\ Unanimous(e.states, e.after)
        /\ (Len(e.states) < ALERT_STATE_SAMPLES
               \/ ~(Unanimous(e.states, TRUE) \/ Unanimous(e.states, FALSE)))
              => (e.after = e.before /\ ~e.ret)

\* C1 (step part): in the guardian, alert_state changes only in connect(),
\* by one of its update_state calls.
C1_ChangedOnlyByUpdateState ==
    (ble_is_central /\ alert_state' # alert_state) =>
        /\ pc = "ble"
        /\ ObsChained(alert_state, alert_state')
        /\ \E i \in DOMAIN cycle'.obs : cycle'.obs[i].ret

\* C1: in the guardian role alert_state changes only inside update_state,
\* and only on a call after which alert_states holds ALERT_STATE_SAMPLES
\* equal decisions that differ from the committed alert_state, which then
\* takes that value; a call that leaves fewer decisions or a window that is
\* not unanimous changes nothing and returns False.
C1_AlertChangesOnlyOnUnanimousWindow ==
    [] C1_CallsCommitOnUnanimity /\ [][C1_ChangedOnlyByUpdateState]_vars

\* An alert was dismissed: a call found five False decisions while
\* alert_state was True.
C1_Witness ==
    \E e \in Obs : e.ret /\ e.before /\ ~e.after /\ e.real

\* The run so far is a run from boot of n samples all below the threshold,
\* none lost to a reset.
AllBelowFromBoot(n) ==
    /\ recording
    /\ Len(pushed_rssis) = n
    /\ Len(pushed_states) = n
    /\ \A i \in DOMAIN pushed_rssis : pushed_rssis[i] < BLE_RSSI_THRESHOLD

\* C2 as stated: fed samples all below the threshold from boot, alert_state
\* becomes True on the call that pushes the fifth decision, and not before.
C2_FlipsOnFifthCall ==
    \A n \in 0..BLE_RSSI_SAMPLES :
        AllBelowFromBoot(n) => (alert_state <=> n >= ALERT_STATE_SAMPLES)

\* C2 as amended: fed samples all below the threshold from boot, every call
\* pushes a True decision, alert_states keeps the last five of them, and
\* alert_state becomes True on the eighth call, the first that leaves
\* BLE_RSSI_SAMPLES samples in ble_rssis, and on no earlier call.
C2_FlipsOnEighthCall ==
    \A n \in 0..BLE_RSSI_SAMPLES :
        AllBelowFromBoot(n) =>
            /\ alert_state <=> n >= BLE_RSSI_SAMPLES
            /\ Unanimous(pushed_states, TRUE)
            /\ alert_states = LastN(pushed_states, Min(n, ALERT_STATE_SAMPLES))
            /\ \A e \in Obs : e.ret <=> n = BLE_RSSI_SAMPLES

\* Eight samples below the threshold have been pushed since boot.
C2_Witness ==
    /\ AllBelowFromBoot(BLE_RSSI_SAMPLES)
    /\ alert_state
    /\ alert_states = << TRUE, TRUE, TRUE, TRUE, TRUE >>

\* C3: ble_rssis never holds more than BLE_RSSI_SAMPLES samples and
\* alert_states never more than ALERT_STATE_SAMPLES decisions, and each
\* holds exactly the last min(capacity, pushes since it was last emptied)
\* values pushed, in the order pushed.
C3_WindowsAreBoundedFifos ==
    recording =>
        /\ Len(ble_rssis) <= BLE_RSSI_SAMPLES
        /\ Len(alert_states) <= ALERT_STATE_SAMPLES
        /\ ble_rssis =
              LastN(pushed_rssis, Min(BLE_RSSI_SAMPLES, Len(pushed_rssis)))
        /\ alert_states =
              LastN(pushed_states, Min(ALERT_STATE_SAMPLES, Len(pushed_states)))

\* Both windows have evicted, and the oldest sample kept differs from the
\* one evicted.
C3_Witness ==
    /\ recording
    /\ Len(pushed_rssis) > BLE_RSSI_SAMPLES
    /\ Len(pushed_states) > ALERT_STATE_SAMPLES
    /\ pushed_rssis[Len(pushed_rssis) - BLE_RSSI_SAMPLES] # ble_rssis[1]

\* C4: an update_state call whose raw decision equals the alert_state
\* already committed leaves alert_state unchanged and returns False.
C4_Idempotent ==
    \A e \in Obs :
        e.decision = e.before => (e.after = e.before /\ ~e.ret)

\* A call confirmed a raised alert on full, unanimous windows.
C4_Witness ==
    \E e \in Obs :
        /\ e.before /\ e.decision
        /\ Len(e.rssis) = BLE_RSSI_SAMPLES
        /\ Unanimous(e.states, TRUE)
        /\ Len(e.states) = ALERT_STATE_SAMPLES

\* The cycle was a scan without qualifying candidate.
NoCandidate == cycle.scanned /\ cycle.candidates = 0

\* Everything in the windows before call e was in range.
InRangeBefore(e) ==
    /\ \A i \in DOMAIN e.rssis_before :
          e.rssis_before[i] >= BLE_RSSI_THRESHOLD
    /\ Unanimous(e.states_before, FALSE)

\* A scan without candidate made exactly one update_state call, with the
\* synthetic sample, which entered both windows.
OneSyntheticSample ==
    /\ Len(cycle.obs) = 1
    /\ ~cycle.obs[1].real
    /\ cycle.obs[1].rssi = BLE_RSSI_THRESHOLD - 1
    /\ cycle.attempts = 0
    /\ ble_rssis # << >> /\ ble_rssis[Len(ble_rssis)] = cycle.obs[1].rssi
    /\ alert_states # << >>
    /\ alert_states[Len(alert_states)] = cycle.obs[1].decision

\* C5 as stated: a scan without qualifying candidate pushes exactly one
\* synthetic sample of BLE_RSSI_THRESHOLD - 1, and when what was recorded
\* before was in range that call does not change alert_state.
C5_SyntheticSampleChangesNothing ==
    NoCandidate =>
        /\ OneSyntheticSample
        /\ InRangeBefore(cycle.obs[1]) =>
              cycle.obs[1].after = cycle.obs[1].before

\* C5 as amended: a scan without qualifying candidate pushes exactly one
\* synthetic sample of BLE_RSSI_THRESHOLD - 1, and when what was recorded
\* before was in range that call does not raise the alert (it can dismiss
\* one, when it is the sample that completes ble_rssis after a reset).
C5_SyntheticSampleRaisesNoAlert ==
    NoCandidate =>
        /\ OneSyntheticSample
        /\ InRangeBefore(cycle.obs[1]) =>
              ~(cycle.obs[1].after /\ ~cycle.obs[1].before)

\* A scan found nobody after eight decisions in range.
C5_Witness ==
    /\ NoCandidate
    /\ InRangeBefore(cycle.obs[1])
    /\ Len(cycle.obs[1].states_before) = ALERT_STATE_SAMPLES
    /\ Len(cycle.obs[1].rssis_before) = BLE_RSSI_SAMPLES
    /\ cycle.obs[1].decision = FALSE

\* C6: once BLE_RSSI_SAMPLES + ALERT_STATE_SAMPLES - 1 = 12 scans in a row
\* have found no qualifying candidate, alert_state is True, and it stays
\* True while the scans keep finding none.
C6_AbsenceRaisesAlert ==
    (ble_is_central /\ absent >= AbsentCap) => alert_state

\* Eleven scans in a row found nobody and the alert is not raised yet; it
\* is raised by the twelfth.
C6_Witness ==
    /\ absent = AbsentCap
    /\ alert_state
    /\ \E e \in Obs : e.ret /\ ~e.real

\* The calls of the cycle that were fed an advertisement and changed
\* alert_state.
RealChanges ==
    { i \in DOMAIN cycle.obs :
        /\ cycle.obs[i].real
        /\ cycle.obs[i].ret
        /\ cycle.obs[i].after # cycle.obs[i].before }

\* Once connected the guardian wrote its six address bytes and then the
\* digit of alert_state, up to the write that failed, and disconnected.
HandshakeInOrder ==
    cycle.connected =>
        /\ Len(address_bytes) = 6
        /\ cycle.disconnected
        /\ IF cycle.write_error
           THEN cycle.writes \in { << >>, << address_bytes >> }
           ELSE cycle.writes =
                   << address_bytes, << IF alert_state THEN 49 ELSE 48 >> >>

\* C7 as stated: a cycle in which alert_state changed attempted a
\* connection, and once connected wrote the address and then the digit.
C7_EveryChangePropagated ==
    cycle.scanned =>
        /\ (\E e \in Obs : e.after # e.before) => cycle.attempts >= 1
        /\ HandshakeInOrder

\* C7 as amended: a cycle in which alert_state changed on an update_state
\* call fed with an advertisement of the ward attempted a connection, and
\* once connected wrote the six address bytes and then the digit of
\* alert_state, in that order; a change made by the synthetic sample of a
\* scan without candidate is not propagated.
C7_ChangeOnAdvertisementPropagated ==
    cycle.scanned =>
        /\ RealChanges # {} => cycle.attempts >= 1
        /\ HandshakeInOrder

\* A dismissed alert was written to the ward.
C7_Witness ==
    /\ cycle.scanned
    /\ RealChanges # {}
    /\ cycle.connected
    /\ cycle.writes = << GuardianBytes, << 48 >> >>

\* C8: a cycle attempts a connection only after an update_state call on an
\* advertisement of the ward returned True, once per such call; a cycle
\* without such a call attempts no connection and writes nothing.
C8_ConnectOnlyOnChange ==
    cycle.scanned =>
        /\ cycle.attempts = Cardinality(RealChanges)
        /\ RealChanges = {} =>
              (~cycle.connected /\ cycle.writes = << >> /\ ~cycle.disconnected)
        /\ cycle.connected => cycle.attempts >= 1

\* The ward was heard on full windows, nothing changed, and no connection
\* was attempted.
C8_Witness ==
    /\ cycle.scanned
    /\ cycle.candidates = 1
    /\ Len(cycle.obs[1].rssis) = BLE_RSSI_SAMPLES
    /\ ~cycle.obs[1].ret
    /\ cycle.attempts = 0
    /\ alert_state

C10_OnlyLongPressHalts ==
    /\ pc \in { "button", "output", "ble", "off" }
    /\ pc = "off" => (out # << >> /\ out[Len(out)] = shutdown)

(***************************************************************************)
(* C11: an identity mismatch changes no state, in either role              *)
(***************************************************************************)
\* The advertisement is the allowlisted ward's and carries the UART service.
Qualifies(adv) == adv.address_bytes = WardBytes /\ adv.uart

IsReal(e) == e.real

\* The address bytes at the head of a received stream.
AddressOf(rx) == IF Len(rx) >= 6 THEN SubSeq(rx, 1, 6) ELSE rx

\* The samples update_state got from advertisements are those of the
\* qualifying advertisements of the scan, in order, and no connection is
\* attempted but after such a sample.
OnlyQualifyingFed ==
    (ble_is_central /\ cycle.scanned) =>
        LET q   == SelectSeq(seen, Qualifies)
            fed == SelectSeq(cycle.obs, IsReal)
        IN  /\ Len(fed) <= Len(q)
            /\ \A i \in 1..Len(fed) : fed[i].rssi = q[i].rssi
            /\ cycle.candidates = Len(fed)
            /\ cycle.attempts <= Len(fed)
            /\ cycle.connected => q[Len(fed)].connects
            /\ (q = << >>) => /\ Len(cycle.obs) = 1
                              /\ ~cycle.obs[1].real
                              /\ cycle.writes = << >>

\* A poll of the ward that read other bytes than the guardian's address
\* leaves alert_state as it was.
MismatchKeepsAlert ==
    (/\ ~ble_is_central
     /\ pc = "ble"
     /\ cycle'.connected
     /\ AddressOf(seen') # GuardianBytes) => /\ alert_state' = alert_state
                                              /\ ~cycle'.received
                                              /\ pc' = "button"

\* C11: the guardian never feeds update_state with the RSSI of an
\* advertisement that is not the allowlisted ward's or lacks the UART
\* service, and never connects to it; the ward leaves alert_state unchanged
\* whenever the six bytes read are not the allowlisted guardian's address.
C11_IdentityMismatchInert ==
    [] OnlyQualifyingFed /\ [][MismatchKeepsAlert]_vars

\* A scan yielded a foreign address and the ward without the service before
\* the ward itself, and only the last was sampled and connected to.
C11_Witness ==
    /\ ble_is_central
    /\ cycle.scanned
    /\ Len(seen) = MaxAdvs
    /\ ~Qualifies(seen[1])
    /\ Qualifies(seen[MaxAdvs])
    /\ Len(cycle.obs) = 1
    /\ cycle.connected

\* The ward, alerted, read a stranger's address followed by a state line.
C11_WardWitness ==
    /\ ~ble_is_central
    /\ alert_state
    /\ cycle.connected
    /\ AddressOf(seen) = StrangerBytes
    /\ Len(seen) > 6

(***************************************************************************)
(* C12: the ward follows the guardian's handshake, and nothing else        *)
(***************************************************************************)
\* The bytes of successive writes as the peer receives them.
RECURSIVE Wire(_)
Wire(writes) ==
    IF writes = << >> THEN << >> ELSE Head(writes) \o Wire(Tail(writes))

\* What the guardian writes in a handshake without failure while its
\* alert_state is b.
Handshake(b) ==
    Wire(send_state([G EXCEPT !.alert_state = b], NoCycle,
                    GuardianBytes, "ok").tr.writes)

\* The line after the six address bytes holds more than whitespace.
StateLineNonEmpty(rx) ==
    \E i \in 7..Len(rx) :
        /\ chr(rx[i]) \notin Whitespace
        /\ \A j \in 7..(i - 1) : rx[j] # ord("\n")

WardStep ==
    /\ alert_state' # alert_state =>
           /\ pc = "ble"
           /\ cycle'.connected
           /\ AddressOf(seen') = GuardianBytes
           /\ StateLineNonEmpty(seen')
    /\ \A b \in BOOLEAN :
           (pc = "ble" /\ cycle'.connected /\ seen' = Handshake(b)) =>
               /\ alert_state' = b
               /\ cycle'.received
               /\ pc' = "button"

\* C12: the ward's alert_state changes only in a poll that read the
\* guardian's address and a non-empty state line, and a poll that read what
\* the guardian writes in a handshake without failure sets it, whatever it
\* was, to the guardian's alert_state as written.
C12_WardFollowsHandshake == [][~ble_is_central => WardStep]_vars

\* The ward is alerted, having read the handshake of an alerted guardian.
C12_Witness ==
    /\ ~ble_is_central
    /\ alert_state
    /\ cycle.received
    /\ seen = Handshake(TRUE)

(***************************************************************************)
(* C13: the handshake payload survives the wire                            *)
(***************************************************************************)
\* Addresses a guardian can have: bytes that are a newline or the highest
\* value in every position, the allowlisted guardian's and a stranger's.
WireByteValues == { 10, 255 }

WireAddresses ==
    [1..6 -> WireByteValues] \cup { GuardianBytes, StrangerBytes }

\* The writes of a handshake without failure of a guardian whose address is
\* own and whose alert_state is b.
Writes(own, b) ==
    send_state([G EXCEPT !.alert_state = b], NoCycle, own, "ok").tr.writes

\* The ward polls while such a guardian is connected; the writes are kept
\* in `seen`.
WirePoll ==
    \E own \in WireAddresses :
        \E b \in BOOLEAN :
            \E writes \in { Writes(own, b) } :
                /\ WaitForConnection(TRUE, Wire(writes))
                /\ seen' = writes

InitWire == Boot({ FALSE }, { TRUE }, { 0 }, FALSE)

NextWire == QuietButton \/ QuietOutput \/ WirePoll

SpecWire == InitWire /\ [][NextWire]_vars

HexValue(c) == (CHOOSE d \in DOMAIN HexDigits : HexDigits[d] = c) - 1

\* The address bytes a MAC text stands for.
mac_to_bytes(mac) ==
    Reversed([i \in 1..((Len(mac) + 1) \div 3) |->
                 16 * HexValue(mac[3 * i - 2]) + HexValue(mac[3 * i - 1])])

\* What the ward's reads make of the received bytes, the allowlist aside.
DecodedAddress(rx) == mac_to_bytes(bytes_to_mac(read(rx, 6)))
DecodedState(rx) ==
    int(strip(decode(readline(SubSeq(rx, Len(read(rx, 6)) + 1, Len(rx))))))

RoundTrip ==
    /\ Len(seen) = 2
    /\ DecodedAddress(Wire(seen)) = seen[1]
    /\ mac_to_bytes(cycle.mac) = seen[1]
    /\ \A b \in BOOLEAN :
           seen[2] = encode_state(b) =>
               /\ DecodedState(Wire(seen)).ok
               /\ (DecodedState(Wire(seen)).value # 0) = b
               /\ seen[1] = GuardianBytes => /\ cycle.received
                                             /\ alert_state = b

\* C13 as stated: the guardian writes the address bytes, then the ASCII
\* digit with its line terminator, and the ward decodes the original address
\* and boolean.
C13_TerminatedRoundTrip ==
    cycle.connected =>
        /\ RoundTrip
        /\ seen[2][Len(seen[2])] = ord("\n")

\* C13: the guardian writes the six address bytes, then one ASCII digit and
\* no line terminator, as two writes; the ward, reading six bytes and then
\* a line that ends with what was received, decodes the original address
\* and the original boolean.
C13_RoundTrip ==
    cycle.connected =>
        /\ RoundTrip
        /\ Len(seen[1]) = 6
        /\ Len(seen[2]) = 1
        /\ chr(seen[2][1]) \in { "0", "1" }

\* The ward took over the alert of the allowlisted guardian.
C13_Witness ==
    /\ cycle.connected
    /\ seen = << GuardianBytes, encode_state(TRUE) >>
    /\ cycle.received
    /\ alert_state

(***************************************************************************)
(* C14: what invokes shutdown                                              *)
(***************************************************************************)
\* C14: shutdown is invoked only on a tick at which the button has been
\* sampled low on every tick since a recorded falling edge, more than
\* BTN_LONG_PRESS_SECONDS after that edge; a press released earlier never
\* triggers it, from any reachable state including the state after boot.
C14_ShutdownOnlyAfterHeldEdge ==
    pc = "off" =>
        /\ held # NotHeld
        /\ now > held + BTN_LONG_PRESS_SECONDS

(***************************************************************************)
(* C15: a long press shuts down, once                                      *)
(***************************************************************************)
\* The button was sampled low on every tick since a falling edge, the last
\* of them more than BTN_LONG_PRESS_SECONDS after the edge.
HeldPastLimit == held # NotHeld /\ now > held + BTN_LONG_PRESS_SECONDS

\* The tick that found the button so gave the purple cue and then shut
\* down, once and with nothing after it.
ShutDown ==
    /\ pc = "off"
    /\ out = << blink("purple", 5), shutdown >>

EdgeTick == pc = "button" /\ btn_state /\ ~btn_state'

MuteStep ==
    /\ EdgeTick => /\ silent' = ~silent
                   /\ btn_timestamp' = now'
    /\ ~EdgeTick => silent' = silent

\* C16: silent is toggled once on every tick that samples a falling edge
\* of the button, the tick that records the edge's timestamp, and is left
\* alone by every other step: a release, a tick with the button held, an
\* output, a poll; alert_state plays no part.
C16_MuteTogglesOnFallingEdge == [][MuteStep]_vars

\* The alerted unit was muted by a press sampled on the current tick.
C16_Witness ==
    /\ alert_state
    /\ silent
    /\ ~btn_state
    /\ btn_timestamp = now
    /\ held = now
    /\ pc = "output"
    /\ out = << print_info >>

(***************************************************************************)
(* C17: Mute silences the haptic and nothing else                          *)
(***************************************************************************)
AlertHaptic == vibrate(HAPTIC_EFFECT_ALERT, HAPTIC_EFFECT_ALERT_LEVEL)

Emitted(o, e) == \E i \in DOMAIN o : o[i] = e

\* No tick has played the alert haptic while silent.
NoHapticWhileMuted == silent => ~Emitted(out, AlertHaptic)

\* The output step of a tick on which an alert pulse is due.
AlertPulseDue ==
    /\ pc = "output"
    /\ alert_state
    /\ now > alert_timestamp + HAPTIC_EFFECT_ALERT_SECONDS

MutedStep ==
    /\ AlertPulseDue =>
           /\ Emitted(out', blink("yellow", 1))
           /\ Emitted(out', AlertHaptic) = ~silent
    /\ silent' # silent =>
           UNCHANGED << alert_state, ble_rssis, alert_states >>

\* C17: the alert haptic is played on no tick while silent is true, a
\* muted alert pulse still blinks yellow (and an unmuted one also plays
\* the haptic), and a step that toggles silent leaves alert_state,
\* ble_rssis and alert_states unchanged.
C17_MuteOnlySuppressesHaptic ==
    [] NoHapticWhileMuted /\ [][MutedStep]_vars

\* A muted alert pulse: the tick blinked yellow and played nothing, the
\* windows full.
C17_Witness ==
    /\ silent
    /\ alert_state
    /\ pc = "ble"
    /\ alert_timestamp = now
    /\ out # << >>
    /\ out[Len(out)] = blink("yellow", 1)
    /\ Len(ble_rssis) = BLE_RSSI_SAMPLES
    /\ Len(alert_states) = ALERT_STATE_SAMPLES

(***************************************************************************)
(* C18: the pulses of the output step                                      *)
(***************************************************************************)
\* What the step appended to the outputs of the tick.
Appended == SubSeq(out', Len(out) + 1, Len(out'))

AlertPulse == Emitted(Appended, blink("yellow", 1))
StatusPulse ==
    Emitted(Appended, blink("red", 1)) \/ Emitted(Appended, blink("blue", 1))

\* The pulses and timestamps of a step, the alert pulse being due when
\* alert_due and the status pulse when status_due.
PulseStep(alert_due, status_due) ==
    /\ ~(AlertPulse /\ StatusPulse)
    /\ AlertPulse = (pc = "output" /\ alert_state /\ alert_due)
    /\ StatusPulse = (pc = "output" /\ ~alert_state /\ status_due)
    /\ alert_timestamp' = IF AlertPulse THEN now ELSE alert_timestamp
    /\ status_timestamp' = IF StatusPulse THEN now ELSE status_timestamp
    /\ AlertPulse => now >= alert_timestamp + HAPTIC_EFFECT_ALERT_SECONDS
    /\ StatusPulse => now >= status_timestamp + LED_STATUS_SECONDS

\* A step of a running tick (the first tick appends to the outputs of boot;
\* a tick resets them).
TickStep(A) == (pc \in { "output", "ble" }) => A

\* C18 as stated: per tick at most one of the alert pulse and the status
\* pulse; the alert pulse exactly when alert_state is true and at least
\* HAPTIC_EFFECT_ALERT_SECONDS have elapsed since the last one, the status
\* pulse exactly when alert_state is false and at least LED_STATUS_SECONDS
\* have elapsed since the last one; each sets only its own timestamp.
C18_PulsesAtLeastPeriodApart ==
    [][TickStep(PulseStep(
           now >= alert_timestamp + HAPTIC_EFFECT_ALERT_SECONDS,
           now >= status_timestamp + LED_STATUS_SECONDS))]_vars

\* C18: per tick at most one of the alert pulse and the status pulse; the
\* alert pulse exactly when alert_state is true and more than
\* HAPTIC_EFFECT_ALERT_SECONDS have elapsed since alert_timestamp, the
\* status pulse exactly when alert_state is false and more than
\* LED_STATUS_SECONDS have elapsed since status_timestamp; each sets only
\* its own timestamp, so pulses of a kind are more than a period apart.
C18_PulsesMoreThanPeriodApart ==
    [][TickStep(PulseStep(
           now > alert_timestamp + HAPTIC_EFFECT_ALERT_SECONDS,
           now > status_timestamp + LED_STATUS_SECONDS))]_vars

\* The tick one period after an alert pulse has passed the output step
\* without a pulse.
C18_Witness ==
    /\ pc = "ble"
    /\ alert_state
    /\ alert_timestamp > 0
    /\ now = alert_timestamp + HAPTIC_EFFECT_ALERT_SECONDS
    /\ ~Emitted(out, blink("yellow", 1))

(***************************************************************************)
(* C19: no commit on insufficient history                                  *)
(***************************************************************************)
\* C19: an update_state call after whose push ble_rssis holds fewer than
\* BLE_RSSI_SAMPLES samples leaves alert_state unchanged and returns False;
\* a failed write leaves ble_rssis empty and each later call adds one
\* sample, so alert_state cannot change during the next
\* BLE_RSSI_SAMPLES - 1 calls.
C19_NoCommitOnShortHistory ==
    /\ \A e \in Obs :
           /\ Len(e.rssis) < BLE_RSSI_SAMPLES =>
                  (e.after = e.before /\ ~e.ret)
           /\ Len(e.rssis_before) < BLE_RSSI_SAMPLES - 1 =>
                  /\ Len(e.rssis) = Len(e.rssis_before) + 1
                  /\ e.after = e.before
                  /\ ~e.ret
    /\ (cycle.write_error /\ pc = "button") => ble_rssis = << >>

\* After a reset by a failed write, a call pushed the fifth of five
\* in-range decisions while the alert was raised, and committed nothing.
C19_Witness ==
    \E e \in Obs :
        /\ e.before
        /\ Len(e.rssis) < BLE_RSSI_SAMPLES
        /\ Len(e.states) = ALERT_STATE_SAMPLES
        /\ Unanimous(e.states, FALSE)
        /\ e.after
        /\ ~e.ret

(***************************************************************************)
(* C20: update_state calls per scan cycle                                  *)
(***************************************************************************)
\* C20: every scan cycle of the guardian calls update_state exactly once,
\* on the first qualifying advertisement or on the synthetic sample, so
\* that each window receives exactly one entry per cycle, also in cycles
\* where a connection attempt fails.
C20_OneCallPerCycle ==
    (ble_is_central /\ cycle.scanned) =>
        /\ Len(cycle.obs) = 1
        /\ cycle.obs[1].real = (cycle.candidates > 0)

\* The same of the cycles in which no connection attempt raised.
OneCallUnlessConnectError ==
    (ble_is_central /\ cycle.scanned /\ cycle.connect_errors = 0) =>
        /\ Len(cycle.obs) = 1
        /\ cycle.obs[1].real = (cycle.candidates > 0)

====
